---- MODULE Spec2Model ----
(***************************************************************************)
(* Model of ectoolkits/workflows/calc_diel.py: the electric-field sweep    *)
(* that generates one CP2K input per field intensity, hands the jobs to    *)
(* dpdispatcher, reads back one dipole component and one cell volume per   *)
(* job and fits the dielectric constant.                                   *)
(*                                                                         *)
(* Numbers.  An intensity is a binary floating-point number; the model     *)
(* takes the intensities m / Grid (Grid a power of two, so each one is an  *)
(* exact float) and carries the integer m.  Rationals are pairs <<n, d>>   *)
(* with d > 0 in lowest terms.  pi is kept symbolic.                       *)
(***************************************************************************)
EXTENDS Integers, Sequences, FiniteSets, TLC

\* ------------------------------------------------------------------ bounds
\* longest intensity_array of a sweep
MaxSweep == 2
\* number of calc_diel invocations of one interpreter session (SpecSession)
MaxCalls == 2
\* longest arrays handed to get_dielectric_constant (SpecFit)
MaxPts == 3
\* number of successive add_efield_input applications (SpecEfield)
MaxApply == 2

\* intensities are m / Grid; 1/Grid < 10^-6 < 2/Grid, so neighbours can
\* agree in their first six decimals: 0 and 1/Grid read 0.000000, and
\* -2/Grid reads -0.000001
Grid == 2^21
Intensities == {-2, 0, 1}

\* ------------------------------------------------------------ module constants
DIPOLE_MOMENT_FILE == "moments.dat"
CP2K_LOG_FILE == "cp2k.log"
INPUT_FILE == "input.inp"

\* ------------------------------------------------------------------ helpers
Abs(i) == IF i < 0 THEN -i ELSE i

Range(s) == {s[i] : i \in DOMAIN s}

SeqsUpTo(S, n) == UNION {[1..k -> S] : k \in 0..n}

\* An exception leaving a function: the value carries the exception's name.
Raise(e) == [raised |-> e]
IsRaised(x) == "raised" \in DOMAIN x
NoError == "none"

Absent == [absent |-> TRUE]

\* --------------------------------------------------- f"{intensity:7.6f}"
\* Fixed-point formatting with 6 decimals of the float m / Grid: the exact
\* value rounded to the nearest multiple of 10^-6, ties to even; the sign is
\* that of the number even when the digits round to zero.  The minimum
\* width 7 never pads: the shortest text, "0.000000", has 8 characters.
Format6(m) ==
    LET scaled == Abs(m) * 1000000
        q == scaled \div Grid
        r == scaled % Grid
        up == (2 * r > Grid) \/ (2 * r = Grid /\ q % 2 = 1)
    IN  [neg |-> m < 0, micro |-> IF up THEN q + 1 ELSE q]

\* single_calc_dir.name: "efield_" followed by the formatted intensity
EfieldDirName(m) == [prefix |-> "efield_", num |-> Format6(m)]

DirNames == {EfieldDirName(m) : m \in Intensities}

\* ------------------------------------------------------ the input dictionary
\* The canonical parse of a template: '+force_eval' is a list of sections,
\* each with a '+dft' section; '+global' holds run_type.
DftSection == [print |-> Absent, periodic_efield |-> Absent,
               wfn_restart_file_name |-> Absent]

ForceEval == [dft |-> DftSection]

\* gen_cp2k_input_dict of a template file with n FORCE_EVAL blocks
gen_cp2k_input_dict(n) ==
    [force_eval |-> [i \in 1..n |-> ForceEval],
     global |-> [run_type |-> Absent]]

\* A faulty variant: any template that has a FORCE_EVAL block is accepted.
AssertSomeForceEval(input_dict) == Len(input_dict.force_eval) >= 1

\* assert len(input_dict['+force_eval']) == 1
AssertOneForceEval(input_dict) == Len(input_dict.force_eval) = 1

\* A faulty variant: the intensity is added to the one of a section that is
\* already there.
add_efield_input_accumulate(input_dict, intensity, displacement_field, polarisation, d_filter) ==
    IF ~AssertOneForceEval(input_dict) THEN Raise("AssertionError")
    ELSE LET old == input_dict.force_eval[1].dft.periodic_efield
             base == IF old = Absent \/ "intensity" \notin DOMAIN old
                     THEN 0 ELSE old.intensity
         IN  [input_dict EXCEPT !.force_eval[1].dft.periodic_efield =
                 [intensity |-> base + intensity,
                  displacement_field |-> displacement_field,
                  polarisation |-> polarisation,
                  d_filter |-> d_filter]]

add_efield_input(input_dict, intensity, displacement_field, polarisation, d_filter) ==
    IF ~AssertOneForceEval(input_dict) THEN Raise("AssertionError")
    ELSE [input_dict EXCEPT !.force_eval[1].dft.periodic_efield =
             [intensity |-> intensity,
              displacement_field |-> displacement_field,
              polarisation |-> polarisation,
              d_filter |-> d_filter]]

add_print_moments(input_dict, periodic, filename) ==
    IF ~AssertOneForceEval(input_dict) THEN Raise("AssertionError")
    ELSE [input_dict EXCEPT !.force_eval[1].dft.print =
             [moments |-> [periodic |-> periodic, filename |-> filename]]]

add_run_type(input_dict, run_type) ==
    IF ~AssertOneForceEval(input_dict) THEN Raise("AssertionError")
    ELSE [input_dict EXCEPT !.global.run_type = run_type]

\* ------------------------------------------------------------------- paths
\* A path is <<directory, base name>>.  "ext" is a directory outside the
\* sweep, the members of OutDirs are the directories given as output_dir.
\* The empty path "" is <<"", "">>.
OutDirs == {"out", "out2"}
EmptyPath == <<"", "">>
PathName(p) == p[2]
PathDir(p) == p[1]

\* what lies outside output_dir: a wavefunction file, a potential file
ExtKind(name) ==
    CASE name = "a.wfn" -> "file"
      [] name = "pot.dat" -> "file"
      [] OTHER -> "none"

add_restart_wfn(input_dict, restart_wfn) ==
    IF ~AssertOneForceEval(input_dict) THEN Raise("AssertionError")
    ELSE [input_dict EXCEPT !.force_eval[1].dft.wfn_restart_file_name =
             <<"..", PathName(restart_wfn)>>]

\* ------------------------------------------------------------- file system
\* A directory's content is a set of entries <<name, kind>>, kind "file" or
\* "dir".  A working directory also holds input.inp and the two result
\* files, kept apart from the copied entries because their content matters.
None == <<>>

HasEntry(entries, name) == \E e \in entries : e[1] = name

\* src.is_dir() / src.is_file() of a path; base[o] are the entries of the
\* output directory o
KindOf(file, base) ==
    CASE PathDir(file) = "ext" -> ExtKind(PathName(file))
      [] PathDir(file) \in OutDirs ->
            IF <<PathName(file), "file">> \in base[PathDir(file)] THEN "file"
            ELSE IF <<PathName(file), "dir">> \in base[PathDir(file)] THEN "dir"
            ELSE "none"
      [] OTHER -> "none"

\* copy_file_list(file_list, target_dir) on the entries `present` of
\* target_dir (base[target_dir] when it is an output directory).
\* shutil.copytree refuses an existing destination, shutil.copy2 refuses to
\* copy a file onto itself and writes into a destination that is a
\* directory; a source that is neither a file nor a directory is skipped
\* without a word.  `copied` lists the sources copied, in order.
RECURSIVE copy_file_list(_, _, _, _)
copy_file_list(file_list, target_dir, present, base) ==
    IF file_list = <<>>
    THEN [entries |-> present, copied |-> <<>>, raised |-> NoError]
    ELSE LET file == Head(file_list)
             name == PathName(file)
             kind == KindOf(file, base)
             after == CASE kind = "dir" -> present \cup {<<name, "dir">>}
                        [] kind = "file" /\ <<name, "dir">> \notin present
                              -> present \cup {<<name, "file">>}
                        [] OTHER -> present
             err == CASE kind = "dir" /\ HasEntry(present, name) -> "FileExistsError"
                      [] kind = "file" /\ PathDir(file) = target_dir -> "SameFileError"
                      [] OTHER -> NoError
         IN  IF err # NoError
             THEN [entries |-> present, copied |-> <<>>, raised |-> err]
             ELSE LET rest == copy_file_list(Tail(file_list), target_dir, after,
                                             IF target_dir \in OutDirs
                                             THEN [base EXCEPT ![target_dir] = after]
                                             ELSE base)
                  IN  [entries |-> rest.entries,
                       copied |-> IF kind = "none" THEN rest.copied
                                  ELSE <<file>> \o rest.copied,
                       raised |-> rest.raised]

\* moments.dat and cp2k.log as a finished job leaves them in directory d:
\* the dipole frames (four numbers each) and the cells (3 x 3) of the run.
MomentsIn(d) ==
    [frames |-> << <<d.num.micro, d.num.micro + 10, d.num.micro + 20, d.num.micro + 30>>,
                   <<0, 0, 0, 0>> >>]

LogIn(d) ==
    [cells |-> << << <<8 + d.num.micro, 0, 0>>, <<0, 8, 0>>, <<0, 0, 8>> >>,
                  << <<9, 0, 0>>, <<0, 9, 0>>, <<0, 0, 9>> >> >>]

NoWorkDir == [exists |-> FALSE, input |-> Absent, entries |-> {},
              moments |-> Absent, log |-> Absent]

\* what an earlier run, of any origin, may have left in directory d
StaleInput == [stale |-> TRUE]
StaleWorkDirs(d) ==
    {NoWorkDir}
    \cup {[exists |-> TRUE, input |-> StaleInput, entries |-> {},
           moments |-> r[1], log |-> r[2]] :
            r \in {<<MomentsIn(d), LogIn(d)>>, <<MomentsIn(d), Absent>>,
                   <<Absent, LogIn(d)>>}}

\* ------------------------------------------------------------ the I/O trace
\* What one calc_diel invocation did to the outside, in order.  i is the
\* position of the sweep point in intensity_array (0 when there is none).
Ev(op, i, what) == [op |-> op, i |-> i, what |-> what]

RECURSIVE CopyEvents(_, _)
CopyEvents(copied, i) ==
    IF copied = <<>> THEN <<>>
    ELSE <<Ev("copy", i, PathName(Head(copied)))>> \o CopyEvents(Tail(copied), i)

\* ------------------------------------------------- gen_series_calc_efield
\* A faulty variant: the new directory goes to the front of the list.
SeriesStep_prepend(st, i, intensity, a, base) ==
    LET input_dict == add_efield_input(st.input_dict, intensity, a.displacement_field,
                                       a.polarisation, a.d_filter)
        d == EfieldDirName(intensity)
        old == st.work[d]
        cp == copy_file_list(a.extra_forward_files, "work", old.entries, base)
        made == [old EXCEPT !.exists = TRUE, !.input = input_dict,
                            !.entries = cp.entries]
    IN  IF IsRaised(input_dict)
        THEN [st EXCEPT !.raised = input_dict.raised]
        ELSE [input_dict |-> input_dict,
              work |-> [st.work EXCEPT ![d] = made],
              list |-> <<d>> \o st.list,
              trace |-> st.trace
                        \o <<Ev("mkdir", i, IF old.exists THEN "exists" ELSE "created"),
                             Ev("write", i, INPUT_FILE)>>
                        \o CopyEvents(cp.copied, i),
              raised |-> cp.raised]

\* One pass of the loop body (lines 170-182) for sweep point i, on the state
\* st = [input_dict, work, list, trace, raised] of the loop.
SeriesStep(st, i, intensity, a, base) ==
    LET input_dict == add_efield_input(st.input_dict, intensity, a.displacement_field,
                                       a.polarisation, a.d_filter)
        d == EfieldDirName(intensity)
        old == st.work[d]
        cp == copy_file_list(a.extra_forward_files, "work", old.entries, base)
        made == [old EXCEPT !.exists = TRUE, !.input = input_dict,
                            !.entries = cp.entries]
    IN  IF IsRaised(input_dict)
        THEN [st EXCEPT !.raised = input_dict.raised]
        ELSE [input_dict |-> input_dict,
              work |-> [st.work EXCEPT ![d] = made],
              list |-> Append(st.list, d),
              trace |-> st.trace
                        \o <<Ev("mkdir", i, IF old.exists THEN "exists" ELSE "created"),
                             Ev("write", i, INPUT_FILE)>>
                        \o CopyEvents(cp.copied, i),
              raised |-> cp.raised]

RECURSIVE SeriesLoop(_, _, _, _)
SeriesLoop(st, i, a, base) ==
    IF i > Len(a.intensity_array) \/ st.raised # NoError THEN st
    ELSE SeriesLoop(SeriesStep(st, i, a.intensity_array[i], a, base), i + 1, a, base)

\* gen_series_calc_efield (lines 141-184); a is the record of its arguments,
\* work the working directories and base the entries of output_dir.
gen_series_calc_efield(input_dict, a, work, base) ==
    LET d1 == add_print_moments(input_dict, a.periodic, a.filename)
        d2 == IF IsRaised(d1) THEN d1
              ELSE CASE a.eps_type = "optical" -> add_run_type(d1, "ENERGY_FORCE")
                     [] a.eps_type = "static" -> add_run_type(d1, "GEO_OPT")
                     [] OTHER -> d1
        d3 == IF IsRaised(d2) \/ a.restart_wfn = None THEN d2
              ELSE add_restart_wfn(d2, a.restart_wfn)
        st0 == [input_dict |-> d3, work |-> work, list |-> <<>>, trace |-> <<>>,
                raised |-> NoError]
    IN  IF IsRaised(d3)
        THEN [st0 EXCEPT !.input_dict = input_dict, !.raised = d3.raised]
        ELSE SeriesLoop(st0, 1, a, base)

\* ---------------------------------------------------------- gen_task_list
Task(command, task_work_path, forward_files, backward_files, outlog) ==
    [command |-> command, task_work_path |-> task_work_path,
     forward_files |-> forward_files, backward_files |-> backward_files,
     outlog |-> outlog]

gen_task_list(command, task_work_path_list, extra_forward_files) ==
    LET outlog == CP2K_LOG_FILE
        forward_files == extra_forward_files \o << <<"work", INPUT_FILE>> >>
        backward_files == <<DIPOLE_MOMENT_FILE, outlog>>
    IN  [k \in 1..Len(task_work_path_list) |->
            Task(command, task_work_path_list[k], forward_files, backward_files, outlog)]

\* ---------------------------------------------------------- result collector
\* 3 x 3 determinant
Det3(c) ==
      c[1][1] * (c[2][2] * c[3][3] - c[2][3] * c[3][2])
    - c[1][2] * (c[2][1] * c[3][3] - c[2][3] * c[3][1])
    + c[1][3] * (c[2][1] * c[3][2] - c[2][2] * c[3][1])

\* np.linalg.det(cell)/(au2A**3): the determinant over the cube of the unit
\* constant, which is not a rational number and is carried by name
Volume(cell) == [det |-> Det3(cell), over |-> "au2A**3"]

\* A faulty variant: a directory whose file is missing is skipped.
RECURSIVE get_dipole_moment_array_skip(_, _, _)
get_dipole_moment_array_skip(task_work_path_list, work, i) ==
    IF task_work_path_list = <<>>
    THEN [values |-> <<>>, trace |-> <<>>, raised |-> NoError]
    ELSE LET d == Head(task_work_path_list)
             rest == get_dipole_moment_array_skip(Tail(task_work_path_list), work, i + 1)
         IN  IF work[d].moments = Absent THEN rest
             ELSE [values |-> <<work[d].moments.frames[1][4]>> \o rest.values,
                   trace |-> <<Ev("read", i, DIPOLE_MOMENT_FILE)>> \o rest.trace,
                   raised |-> rest.raised]

\* get_dipole_moment_array (lines 40-47) from position i of the sweep on:
\* parse_dipole_list(output_file)[0][3] is the fourth number of the first
\* frame.  Opening a file that is not there raises FileNotFoundError.
RECURSIVE get_dipole_moment_array(_, _, _)
get_dipole_moment_array(task_work_path_list, work, i) ==
    IF task_work_path_list = <<>>
    THEN [values |-> <<>>, trace |-> <<>>, raised |-> NoError]
    ELSE LET d == Head(task_work_path_list)
         IN  IF work[d].moments = Absent
             THEN [values |-> <<>>, trace |-> <<>>, raised |-> "FileNotFoundError"]
             ELSE LET rest == get_dipole_moment_array(Tail(task_work_path_list), work, i + 1)
                  IN  [values |-> <<work[d].moments.frames[1][4]>> \o rest.values,
                       trace |-> <<Ev("read", i, DIPOLE_MOMENT_FILE)>> \o rest.trace,
                       raised |-> rest.raised]

\* get_volume_array (lines 49-58): the first cell of cp2k.log
RECURSIVE get_volume_array(_, _, _)
get_volume_array(task_work_path_list, work, i) ==
    IF task_work_path_list = <<>>
    THEN [values |-> <<>>, trace |-> <<>>, raised |-> NoError]
    ELSE LET d == Head(task_work_path_list)
         IN  IF work[d].log = Absent
             THEN [values |-> <<>>, trace |-> <<>>, raised |-> "FileNotFoundError"]
             ELSE LET rest == get_volume_array(Tail(task_work_path_list), work, i + 1)
                  IN  [values |-> <<Volume(work[d].log.cells[1])>> \o rest.values,
                       trace |-> <<Ev("read", i, CP2K_LOG_FILE)>> \o rest.trace,
                       raised |-> rest.raised]

\* ------------------------------------------------------------ the dispatcher
\* Submission.run_submission of dpdispatcher, by its contract: with dry_run
\* the submission is uploaded and the call returns with no job executed;
\* otherwise every job runs to completion and leaves its backward files; and
\* either way the dispatcher may fail with an error of its own.
run_submission(tasks, dry_run, work) ==
    {[raised |-> "DispatcherError", executed |-> {}, work |-> work]}
    \cup
    IF dry_run
    THEN {[raised |-> NoError, executed |-> {}, work |-> work]}
    ELSE {[raised |-> NoError, executed |-> DOMAIN tasks,
           work |-> [d \in DOMAIN work |->
                       IF \E k \in DOMAIN tasks : tasks[k].task_work_path = d
                       THEN [work[d] EXCEPT !.moments = MomentsIn(d), !.log = LogIn(d)]
                       ELSE work[d]]]}

\* linregress needs two different x values; with fewer, scipy raises
\* ValueError or, in older releases, returns nan after a warning.
Distinct(x) == Cardinality(Range(x))
linregress_outcomes(x) ==
    IF Distinct(x) >= 2 THEN {"slope"} ELSE {"ValueError", "nan"}

\* ------------------------------------------------ regression and reporting
\* rationals <<n, d>>, d > 0, in lowest terms; <<0, 0>> is nan
RECURSIVE Gcd(_, _)
Gcd(a, b) == IF b = 0 THEN a ELSE Gcd(b, a % b)

Rat(n, d) ==
    LET g == Gcd(Abs(n), Abs(d))
        sgn == IF d < 0 THEN -1 ELSE 1
    IN  IF d = 0 THEN <<0, 0>> ELSE <<(sgn * n) \div g, (sgn * d) \div g>>

RAdd(a, b) == Rat(a[1] * b[2] + b[1] * a[2], a[2] * b[2])
RSub(a, b) == Rat(a[1] * b[2] - b[1] * a[2], a[2] * b[2])
RMul(a, b) == Rat(a[1] * b[1], a[2] * b[2])
RDiv(a, b) == Rat(a[1] * b[2], a[2] * b[1])
RInt(i) == <<i, 1>>

RECURSIVE RSum(_)
RSum(s) == IF s = <<>> THEN RInt(0) ELSE RAdd(Head(s), RSum(Tail(s)))

RMean(s) == RDiv(RSum(s), RInt(Len(s)))

\* A faulty variant: intensity is regressed against polarization.
linregress_swapped(x, y) ==
    LET xm == RMean(y)
        ym == RMean(x)
        ssxm == RMean([i \in DOMAIN x |-> RMul(RSub(y[i], xm), RSub(y[i], xm))])
        ssxym == RMean([i \in DOMAIN x |-> RMul(RSub(y[i], xm), RSub(x[i], ym))])
    IN  IF Distinct(x) >= 2 /\ ssxm # RInt(0)
        THEN {[raised |-> NoError, slope |-> RDiv(ssxym, ssxm)]}
        ELSE {[raised |-> "ValueError", slope |-> RInt(0)],
              [raised |-> NoError, slope |-> <<0, 0>>]}

\* scipy.stats.linregress(x, y).slope: the covariance of x and y over the
\* variance of x (both with bias=1).  <<0, 0>> stands for nan.
linregress(x, y) ==
    LET xm == RMean(x)
        ym == RMean(y)
        ssxm == RMean([i \in DOMAIN x |-> RMul(RSub(x[i], xm), RSub(x[i], xm))])
        ssxym == RMean([i \in DOMAIN x |-> RMul(RSub(x[i], xm), RSub(y[i], ym))])
    IN  IF "slope" \in linregress_outcomes(x)
        THEN {[raised |-> NoError, slope |-> RDiv(ssxym, ssxm)]}
        ELSE {[raised |-> "ValueError", slope |-> RInt(0)],
              [raised |-> NoError, slope |-> <<0, 0>>]}

\* get_dielectric_constant (lines 60-67).  The result slope * 4 * pi + 1 is
\* carried as the pair of the coefficient of pi and the rational part.
get_dielectric_constant(dipole_moment_array, intensity_array, volume_array) ==
    LET polarization_array ==
            [i \in DOMAIN dipole_moment_array |->
                RDiv(dipole_moment_array[i], volume_array[i])]
    IN  {[raised |-> o.raised,
          dielectric_constant |-> [pi |-> RMul(o.slope, RInt(4)), plus |-> RInt(1)]] :
            o \in linregress(intensity_array, polarization_array)}

\* ------------------------------------------------------------------- state
VARIABLES
    pc,                     \* where the current calc_diel invocation stands
    args,                   \* its arguments
    calls,                  \* invocations so far in this interpreter
    work,                   \* the working directories under each output directory
    base,                   \* the entries of each output directory itself
    artifacts,              \* the .dat files in the current directory
    default_common,         \* the list object that is the default of extra_forward_common_files
    forward_common_files,   \* the list given to Submission
    task_work_path_list,
    task_list,
    dispatched,             \* run_submission was called
    executed,               \* the jobs the dispatcher ran to completion
    dipole_moment_array,
    volume_array,
    printed,                \* the dielectric constant printed
    error,                  \* the exception that ended the invocation
    trace,                  \* the I/O of the invocation, in order
    appended,               \* history: the invocations that appended to the default list
    fit,                    \* SpecFit: the arrays and the result
    ef                      \* SpecEfield: the dictionary and the last arguments

flowVars == <<pc, args, calls, work, base, artifacts, default_common,
              forward_common_files, task_work_path_list, task_list, dispatched,
              executed, dipole_moment_array, volume_array, printed, error, trace,
              appended>>
vars == <<flowVars, fit, ef>>

NoArgs == [blocks |-> 0]
NoFit == [stage |-> "none"]
NoEf == [applied |-> 0]

\* the fresh locals of an invocation
Locals ==
    /\ args = NoArgs
    /\ forward_common_files = <<>>
    /\ task_work_path_list = <<>>
    /\ task_list = <<>>
    /\ dispatched = FALSE
    /\ executed = {}
    /\ dipole_moment_array = <<>>
    /\ volume_array = <<>>
    /\ printed = Absent
    /\ error = NoError
    /\ trace = <<>>

\* ------------------------------------------------------------- calc_diel
\* the arguments of calc_diel the model ranges over
ArgsOf(blocks, intensity_array, eps_type, output_dir, extra, use_default, restart_wfn, dry_run) ==
    [blocks |-> blocks, intensity_array |-> intensity_array, output_dir |-> output_dir,
     displacement_field |-> FALSE, polarisation |-> <<0, 0, 1>>,
     d_filter |-> <<0, 0, 1>>, eps_type |-> eps_type, periodic |-> TRUE,
     filename |-> "=" \o DIPOLE_MOMENT_FILE, command |-> "cp2k",
     extra_forward_files |-> extra, use_default_common |-> use_default,
     restart_wfn |-> restart_wfn, dry_run |-> dry_run]

RestartChoices ==
    {None, EmptyPath, <<"ext", "a.wfn">>, <<"ext", "m.wfn">>, <<"out", "a.wfn">>}

CallArgs ==
    {ArgsOf(b, x, e, "out", f, u, r, y) :
        b \in {1, 2}, x \in SeqsUpTo(Intensities, MaxSweep),
        e \in {"optical", "static"}, f \in {<<>>, << <<"ext", "pot.dat">> >>},
        u \in BOOLEAN, r \in RestartChoices, y \in BOOLEAN}

\* `if restart_wfn:`
Truthy(restart_wfn) == restart_wfn # None /\ restart_wfn # EmptyPath

\* lines 218-233: parse the template, generate the series, build the jobs
Enter(a) ==
    /\ LET g == gen_series_calc_efield(gen_cp2k_input_dict(a.blocks), a,
                                       work[a.output_dir], base)
       IN  /\ args' = a
           /\ calls' = calls + 1
           /\ work' = [work EXCEPT ![a.output_dir] = g.work]
           /\ trace' = g.trace
           /\ IF g.raised # NoError
              THEN /\ pc' = "failed"
                   /\ error' = g.raised
                   /\ UNCHANGED <<task_work_path_list, task_list>>
              ELSE /\ pc' = "generated"
                   /\ error' = NoError
                   /\ task_work_path_list' = g.list
                   /\ task_list' = gen_task_list(a.command, g.list, a.extra_forward_files)
    /\ UNCHANGED <<base, artifacts, default_common, forward_common_files, dispatched,
                   executed, dipole_moment_array, volume_array, printed, appended,
                   fit, ef>>

\* A faulty variant (what a fresh list per call would do).
CommonFilesFresh(use_default, shared) == <<>>

\* extra_forward_common_files as calc_diel sees it: the one list object made
\* when the function was defined, unless the caller passes a list (lines 213, 239)
CommonFilesObject(use_default, shared) == IF use_default THEN shared ELSE <<>>

\* lines 235-252: the common files, copied into output_dir, and the Submission.
\* Machine, Resources and Submission are built from their arguments and
\* touch nothing here.
Stage ==
    /\ pc = "generated"
    /\ LET o == args.output_dir
           given == CommonFilesObject(args.use_default_common, default_common)
           appends == Truthy(args.restart_wfn)
           fcf == IF appends THEN Append(given, args.restart_wfn) ELSE given
           cp == copy_file_list(fcf, o, base[o], base)
       IN  /\ default_common' = IF args.use_default_common THEN fcf ELSE default_common
           /\ base' = [base EXCEPT ![o] = cp.entries]
           /\ trace' = trace \o CopyEvents(cp.copied, 0)
           /\ appended' = IF appends /\ args.use_default_common
                          THEN Append(appended, [restart_wfn |-> args.restart_wfn,
                                                 submitted |-> cp.raised = NoError])
                          ELSE appended
           /\ IF cp.raised # NoError
              THEN /\ pc' = "failed"
                   /\ error' = cp.raised
                   /\ UNCHANGED forward_common_files
              ELSE /\ pc' = "submission"
                   /\ forward_common_files' = fcf
                   /\ UNCHANGED error
    /\ UNCHANGED <<args, calls, work, artifacts, task_work_path_list, task_list,
                   dispatched, executed, dipole_moment_array, volume_array, printed,
                   fit, ef>>

\* lines 253-256: exit_on_submit is bound only under dry_run, so evaluating
\* the arguments of run_submission raises UnboundLocalError without it.
RunSubmission ==
    /\ pc = "submission"
    /\ IF ~args.dry_run
       THEN /\ pc' = "failed"
            /\ error' = "UnboundLocalError"
            /\ UNCHANGED <<dispatched, executed, work, trace>>
       ELSE \E o \in run_submission(task_list, args.dry_run, work[args.output_dir]) :
               /\ dispatched' = TRUE
               /\ executed' = o.executed
               /\ work' = [work EXCEPT ![args.output_dir] = o.work]
               /\ trace' = Append(trace, Ev("run_submission", 0, "dispatcher"))
               /\ pc' = IF o.raised # NoError THEN "failed" ELSE "returned"
               /\ error' = o.raised
    /\ UNCHANGED <<args, calls, base, artifacts, default_common, forward_common_files,
                   task_work_path_list, task_list, dipole_moment_array, volume_array,
                   printed, appended, fit, ef>>

\* lines 258-259: the two arrays, one directory after the other
Collect ==
    /\ pc = "returned"
    /\ LET dm == get_dipole_moment_array(task_work_path_list, work[args.output_dir], 1)
           vol == IF dm.raised # NoError
                  THEN [values |-> <<>>, trace |-> <<>>, raised |-> dm.raised]
                  ELSE get_volume_array(task_work_path_list, work[args.output_dir], 1)
       IN  /\ trace' = trace \o dm.trace \o vol.trace
           /\ IF vol.raised # NoError
              THEN /\ pc' = "failed"
                   /\ error' = vol.raised
                   /\ UNCHANGED <<dipole_moment_array, volume_array>>
              ELSE /\ pc' = "collected"
                   /\ dipole_moment_array' = dm.values
                   /\ volume_array' = vol.values
                   /\ UNCHANGED error
    /\ UNCHANGED <<args, calls, work, base, artifacts, default_common,
                   forward_common_files, task_work_path_list, task_list, dispatched,
                   executed, printed, appended, fit, ef>>

\* lines 261-270: the fit, the three saved arrays, the printed constant
Report ==
    /\ pc = "collected"
    /\ \E o \in linregress_outcomes(args.intensity_array) :
          IF o = "ValueError"
          THEN /\ pc' = "failed"
               /\ error' = o
               /\ UNCHANGED <<artifacts, printed, trace>>
          ELSE /\ pc' = "done"
               /\ artifacts' = [dipole_moment_array |-> dipole_moment_array,
                                intensity_array |-> args.intensity_array,
                                volume_array |-> volume_array]
               /\ printed' = [value |-> o]
               /\ trace' = trace \o <<Ev("savetxt", 0, "dipole_moment_array.dat"),
                                      Ev("savetxt", 0, "intensity_array.dat"),
                                      Ev("savetxt", 0, "volume_array.dat"),
                                      Ev("print", 0, "dielectric_constant")>>
               /\ UNCHANGED error
    /\ UNCHANGED <<args, calls, work, base, default_common, forward_common_files,
                   task_work_path_list, task_list, dispatched, executed,
                   dipole_moment_array, volume_array, appended, fit, ef>>

\* a call of calc_diel with arguments out of Choices
Invoke(Choices) ==
    /\ pc = "idle"
    /\ calls < MaxCalls
    /\ \E a \in Choices : Enter(a)

\* calc_diel is over, by return or by exception: its locals are gone, the
\* files, and the default list object, stay.
Return ==
    /\ pc \in {"done", "failed"}
    /\ pc' = "idle"
    /\ args' = NoArgs
    /\ forward_common_files' = <<>>
    /\ task_work_path_list' = <<>>
    /\ task_list' = <<>>
    /\ dispatched' = FALSE
    /\ executed' = {}
    /\ dipole_moment_array' = <<>>
    /\ volume_array' = <<>>
    /\ printed' = Absent
    /\ error' = NoError
    /\ trace' = <<>>
    /\ UNCHANGED <<calls, work, base, artifacts, default_common, appended, fit, ef>>

\* -------------------------------------------------------- specifications
NoArtifacts == [none |-> TRUE]

\* One invocation, from a file system in which earlier runs may have left
\* working directories behind.
Init ==
    /\ pc = "idle"
    /\ Locals
    /\ calls = 0
    /\ \E w \in [DirNames -> UNION {StaleWorkDirs(d) : d \in DirNames}] :
          /\ \A d \in DirNames : w[d] \in StaleWorkDirs(d)
          /\ work = [o \in OutDirs |->
                        IF o = "out" THEN w ELSE [d \in DirNames |-> NoWorkDir]]
    /\ base = [o \in OutDirs |-> {}]
    /\ artifacts = NoArtifacts
    /\ default_common = <<>>
    /\ appended = <<>>
    /\ fit = NoFit
    /\ ef = NoEf

Next ==
    \/ Invoke(CallArgs)
    \/ Stage
    \/ RunSubmission
    \/ Collect
    \/ Report

Spec == Init /\ [][Next]_vars

\* A session of several invocations in one interpreter, after earlier runs
\* that left every working directory complete; a.wfn may lie in "out".
SessionArgs ==
    {ArgsOf(b, <<0, -2>>, "optical", o, <<>>, u, r, y) :
        b \in {1, 2}, o \in OutDirs, u \in BOOLEAN, r \in RestartChoices,
        y \in BOOLEAN}

InitSession ==
    /\ pc = "idle"
    /\ Locals
    /\ calls = 0
    /\ work = [o \in OutDirs |-> [d \in DirNames |->
                  [exists |-> TRUE, input |-> StaleInput, entries |-> {},
                   moments |-> MomentsIn(d), log |-> LogIn(d)]]]
    /\ base \in {[o \in OutDirs |-> {}],
                 [o \in OutDirs |-> IF o = "out" THEN {<<"a.wfn", "file">>} ELSE {}]}
    /\ artifacts = NoArtifacts
    /\ default_common = <<>>
    /\ appended = <<>>
    /\ fit = NoFit
    /\ ef = NoEf

NextSession ==
    \/ Invoke(SessionArgs)
    \/ Stage
    \/ RunSubmission
    \/ Collect
    \/ Report
    \/ Return

SpecSession == InitSession /\ [][NextSession]_vars

\* ------------------------------------------- get_dielectric_constant alone
FitX == {0, 1, 2}
FitD == {0, 2, 5}
FitV == {250, 500}

Idle ==
    /\ pc = "idle"
    /\ Locals
    /\ calls = 0
    /\ work = [o \in OutDirs |-> [d \in DirNames |-> NoWorkDir]]
    /\ base = [o \in OutDirs |-> {}]
    /\ artifacts = NoArtifacts
    /\ default_common = <<>>
    /\ appended = <<>>

InitFit ==
    /\ Idle
    /\ ef = NoEf
    /\ \E n \in 1..MaxPts :
          fit \in [stage : {"input"}, x : [1..n -> FitX], d : [1..n -> FitD],
                   v : [1..n -> FitV]]

ApplyFit ==
    /\ fit.stage = "input"
    /\ \E o \in get_dielectric_constant([i \in DOMAIN fit.d |-> RInt(fit.d[i])],
                                        [i \in DOMAIN fit.x |-> RInt(fit.x[i])],
                                        [i \in DOMAIN fit.v |-> RInt(fit.v[i])]) :
          fit' = [stage |-> "done", x |-> fit.x, d |-> fit.d, v |-> fit.v,
                  raised |-> o.raised, result |-> o.dielectric_constant]
    /\ UNCHANGED <<flowVars, ef>>

NextFit == ApplyFit

SpecFit == InitFit /\ [][NextFit]_vars

\* ------------------------------------------------- add_efield_input alone
\* a template that already has a field section, with a key of its own
FieldTemplate ==
    [gen_cp2k_input_dict(1) EXCEPT !.force_eval[1].dft.periodic_efield =
        [intensity |-> 2, start_frame |-> 1]]

EfieldArgs ==
    [intensity : Intensities, displacement_field : BOOLEAN,
     polarisation : {<<0, 0, 1>>, <<1, 0, 0>>}, d_filter : {<<0, 0, 1>>, <<1, 1, 1>>}]

InitEfield ==
    /\ Idle
    /\ fit = NoFit
    /\ ef \in [applied : {0}, dict : {gen_cp2k_input_dict(1), FieldTemplate}]

ApplyEfield ==
    /\ ef.applied < MaxApply
    /\ \E a \in EfieldArgs :
          ef' = [applied |-> ef.applied + 1,
                 dict |-> add_efield_input(ef.dict, a.intensity, a.displacement_field,
                                           a.polarisation, a.d_filter),
                 before |-> ef.dict,
                 last |-> a,
                 history |-> IF ef.applied = 0 THEN <<a>> ELSE Append(ef.history, a)]
    /\ UNCHANGED <<flowVars, fit>>

NextEfield == ApplyEfield

SpecEfield == InitEfield /\ [][NextEfield]_vars

\* ================================================================ properties
\* gen_series_calc_efield returned to calc_diel
Produced ==
    \/ pc \in {"generated", "submission", "returned", "collected", "done"}
    \/ pc = "failed" /\ error # "AssertionError"

\* q / 10^6 is a multiple of 10^-6 nearest to |m| / Grid
NearestMicro(m, q) == 2 * Abs(q * Grid - Abs(m) * 1000000) <= Grid

EventsOf(op, what) == SelectSeq(trace, LAMBDA e : e.op = op /\ e.what = what)
EventsOp(op) == SelectSeq(trace, LAMBDA e : e.op = op)

FieldOf(input) == input.force_eval[1].dft.periodic_efield
RestartOf(input) == input.force_eval[1].dft.wfn_restart_file_name

\* C1: the sweep order is kept from end to end.  Once the series is
\* generated there are as many directories and jobs as intensities, the N-th
\* directory is "efield_" and the N-th intensity rounded to six decimals,
\* and the N-th job works in the N-th directory; once the results are
\* collected both arrays have that length and their N-th values are the ones
\* read, N-th in order, from the N-th directory.
SweepOrderPreserved ==
    /\ Produced =>
          LET x == args.intensity_array
          IN  /\ Len(task_work_path_list) = Len(x)
              /\ Len(task_list) = Len(x)
              /\ \A N \in 1..Len(x) :
                    /\ task_work_path_list[N].prefix = "efield_"
                    /\ task_work_path_list[N].num.neg = (x[N] < 0)
                    /\ NearestMicro(x[N], task_work_path_list[N].num.micro)
                    /\ task_list[N].task_work_path = task_work_path_list[N]
    /\ pc \in {"collected", "done"} =>
          LET n == Len(args.intensity_array)
              w == work[args.output_dir]
          IN  /\ Len(dipole_moment_array) = n
              /\ Len(volume_array) = n
              /\ Len(EventsOf("read", DIPOLE_MOMENT_FILE)) = n
              /\ Len(EventsOf("read", CP2K_LOG_FILE)) = n
              /\ \A N \in 1..n :
                    /\ dipole_moment_array[N]
                          = w[task_work_path_list[N]].moments.frames[1][4]
                    /\ volume_array[N].det
                          = Det3(w[task_work_path_list[N]].log.cells[1])
                    /\ EventsOf("read", DIPOLE_MOMENT_FILE)[N].i = N
                    /\ EventsOf("read", CP2K_LOG_FILE)[N].i = N

SweepOrderWitness ==
    /\ pc = "done"
    /\ args.intensity_array = <<-2, 0>>
    /\ dipole_moment_array = <<31, 30>>

\* C2: directory names are one to one with intensity values.  In a sweep
\* of pairwise different intensities the sweep points have pairwise
\* different directories, every sweep point's directory is created by its
\* own mkdir, and the input.inp in a sweep point's directory is the one
\* written for that sweep point.
OneDirectoryPerIntensity ==
    Produced =>
       LET x == args.intensity_array
           w == work[args.output_dir]
       IN  (\A i, j \in 1..Len(x) : i # j => x[i] # x[j]) =>
              /\ \A i, j \in 1..Len(x) :
                    i # j => task_work_path_list[i] # task_work_path_list[j]
              /\ \A N \in 1..Len(x) :
                    /\ \E k \in DOMAIN trace : trace[k] = Ev("mkdir", N, "created")
                    /\ FieldOf(w[task_work_path_list[N]].input).intensity = x[N]

\* C3: a run that is not a dry run, on a template with one block, hands its
\* jobs to the dispatcher: it does not end, other than by a failed copy of
\* the common files, without run_submission having been called; and when
\* the dispatcher ran every job and every result file is there, it does not
\* fail short of the fit.
NonDryRunIsDispatched ==
    (pc = "failed" /\ ~args.dry_run /\ args.blocks = 1) =>
        /\ error \in {"SameFileError", "FileExistsError"} \/ dispatched
        /\ ( /\ dispatched
             /\ executed = DOMAIN task_list
             /\ \A N \in DOMAIN task_work_path_list :
                   /\ work[args.output_dir][task_work_path_list[N]].moments # Absent
                   /\ work[args.output_dir][task_work_path_list[N]].log # Absent )
           => error = "ValueError"

\* C4: a template with more than one FORCE_EVAL block makes the invocation
\* fail with the assertion before it has made a directory, written an input
\* or copied a file.
MultiBlockFailsBeforeIO ==
    (pc # "idle" /\ args.blocks > 1) =>
        /\ pc = "failed"
        /\ error = "AssertionError"
        /\ trace = <<>>
        /\ \A d \in DirNames : work[args.output_dir][d] \in StaleWorkDirs(d)
        /\ base[args.output_dir] = {}
        /\ task_work_path_list = <<>>

MultiBlockWitness ==
    /\ pc = "failed"
    /\ args.blocks = 2
    /\ Len(args.intensity_array) = 2
    /\ args.extra_forward_files # <<>>
    /\ args.restart_wfn = <<"ext", "a.wfn">>
    /\ args.eps_type = "static"

\* C5: a result is read only after its job has completed.  Every result
\* file read belongs to a sweep point whose job the dispatcher ran to
\* completion in this invocation; under dry_run no job runs, no result file
\* is read and no array is saved.
ReadsOnlyExecutedJobs ==
    pc # "idle" =>
        /\ \A k \in DOMAIN trace : trace[k].op = "read" => trace[k].i \in executed
        /\ args.dry_run =>
              /\ executed = {}
              /\ EventsOp("read") = <<>>
              /\ EventsOp("savetxt") = <<>>
              /\ artifacts = NoArtifacts

\* C6: no partial aggregation.  When the dispatcher has returned and the
\* moments.dat or the cp2k.log of some sweep point is missing, the
\* invocation fails on that file; no array is saved and no constant printed.
ResultMissing ==
    \E N \in DOMAIN task_work_path_list :
        \/ work[args.output_dir][task_work_path_list[N]].moments = Absent
        \/ work[args.output_dir][task_work_path_list[N]].log = Absent

NoPartialAggregation ==
    (dispatched /\ error # "DispatcherError" /\ pc # "returned" /\ ResultMissing) =>
        /\ pc = "failed"
        /\ error = "FileNotFoundError"
        /\ artifacts = NoArtifacts
        /\ printed = Absent
        /\ EventsOp("savetxt") = <<>>
        /\ EventsOp("print") = <<>>

NoPartialAggregationWitness ==
    /\ pc = "failed"
    /\ error = "FileNotFoundError"
    /\ Len(task_work_path_list) = 2
    /\ task_work_path_list[1] # task_work_path_list[2]
    /\ work[args.output_dir][task_work_path_list[1]].moments # Absent
    /\ work[args.output_dir][task_work_path_list[1]].log # Absent
    /\ work[args.output_dir][task_work_path_list[2]].moments # Absent
    /\ work[args.output_dir][task_work_path_list[2]].log = Absent

\* C7: with polarization = dipole / volume, whenever the polarization is
\* k * intensity + b at every point and two intensities differ,
\* get_dielectric_constant returns k * 4 * pi + 1.
FitOfLineIsItsSlope ==
    fit.stage = "done" =>
       LET n == Len(fit.x)
           p == [i \in 1..n |-> RDiv(RInt(fit.d[i]), RInt(fit.v[i]))]
       IN  \A i, j \in 1..n :
              fit.x[i] # fit.x[j] =>
                 LET k == RDiv(RSub(p[j], p[i]), RInt(fit.x[j] - fit.x[i]))
                     b == RSub(p[i], RMul(k, RInt(fit.x[i])))
                 IN  (\A t \in 1..n : p[t] = RAdd(RMul(k, RInt(fit.x[t])), b))
                        => /\ fit.raised = NoError
                           /\ fit.result = [pi |-> RMul(RInt(4), k), plus |-> RInt(1)]

\* the sweep of the end-to-end scenario, intensities in 10^-3 and dipoles in
\* 10^-4: the slope is 1/250 * 10^-1 = 4e-4, the coefficient of pi four times that
FitScenarioWitness ==
    /\ fit.stage = "done"
    /\ fit.x = <<0, 1>>
    /\ fit.d = <<0, 2>>
    /\ fit.v = <<500, 500>>
    /\ fit.raised = NoError
    /\ fit.result = [pi |-> <<2, 125>>, plus |-> <<1, 1>>]

\* C8: add_efield_input is idempotent.  After an application the field
\* section holds the arguments of that application and nothing else, the
\* rest of the dictionary is as it was, and applying it again with the same
\* arguments changes nothing.
EfieldIdempotent ==
    ef.applied >= 1 =>
       LET section == [intensity |-> ef.last.intensity,
                       displacement_field |-> ef.last.displacement_field,
                       polarisation |-> ef.last.polarisation,
                       d_filter |-> ef.last.d_filter]
       IN  /\ FieldOf(ef.dict) = section
           /\ ef.dict = [ef.before EXCEPT !.force_eval[1].dft.periodic_efield = section]
           /\ (ef.applied >= 2 /\ ef.history[ef.applied] = ef.history[ef.applied - 1])
                 => ef.dict = ef.before

EfieldTwiceWitness ==
    /\ ef.applied = 2
    /\ ef.history[1] = ef.history[2]
    /\ ef.last.intensity = 1
    /\ ef.dict = ef.before

\* C9: the default list of extra_forward_common_files is one object for all
\* calls.  When a call that passes a restart file and no list of its own
\* builds its Submission, the list it hands over holds the restart path of
\* every such call so far that reached the append, its own last; when all of
\* them reached their Submission and this is the k-th, it holds k entries.
DefaultListAccumulates ==
    (pc = "submission" /\ args.use_default_common /\ Truthy(args.restart_wfn)) =>
        /\ forward_common_files = [i \in 1..Len(appended) |-> appended[i].restart_wfn]
        /\ forward_common_files[Len(forward_common_files)] = args.restart_wfn
        /\ (\A i \in DOMAIN appended : appended[i].submitted)
              => Len(forward_common_files)
                    = Cardinality({i \in DOMAIN appended : appended[i].submitted})

DefaultListWitness ==
    /\ pc = "submission"
    /\ args.use_default_common
    /\ calls = 2
    /\ Len(appended) = 2
    /\ \A i \in DOMAIN appended : appended[i].submitted
    /\ forward_common_files = <<appended[1].restart_wfn, args.restart_wfn>>

\* C10: the restart file lies one level above every input.  When a
\* restart_wfn is given, every generated input.inp names "../" and the base
\* name of restart_wfn, and when the Submission is built output_dir holds an
\* entry of that name; when none is given no input names a restart file.
RestartOneLevelUp ==
    pc \in {"submission", "returned", "collected", "done"} =>
       LET w == work[args.output_dir]
       IN  /\ args.restart_wfn # None =>
                 /\ \A N \in DOMAIN task_work_path_list :
                       RestartOf(w[task_work_path_list[N]].input)
                          = <<"..", PathName(args.restart_wfn)>>
                 /\ HasEntry(base[args.output_dir], PathName(args.restart_wfn))
           /\ args.restart_wfn = None =>
                 \A N \in DOMAIN task_work_path_list :
                    RestartOf(w[task_work_path_list[N]].input) = Absent

====
